---- MODULE Spec2Model ----
(***************************************************************************)
(* Job orchestration and live-progress fabric of the Advanced Download     *)
(* Manager: the REST-facing DownloadsService, the BullMQ queue and worker  *)
(* (DownloadWorker.processJob), the worker's socket client, the            *)
(* WorkerEventsGateway with its throttled progress writes, and the         *)
(* retention sweep of FilesService.                                        *)
(*                                                                         *)
(* BullMQ is a library outside the repository.  The model uses its         *)
(* documented behaviour: Queue.add with a jobId that still exists in the   *)
(* queue (in any state, retained completed/failed entries included) adds   *)
(* nothing; Job.remove throws for an active job whose lock a worker holds; *)
(* a failed attempt is moved to delayed while attemptsMade < attempts and  *)
(* to failed otherwise (BullMQ 5: attemptsMade counts finished attempts);   *)
(* a job whose worker lost its lock is moved back to wait by the stalled   *)
(* check up to maxStalledCount times, without a change of attemptsMade,    *)
(* and to failed after that; among waiting jobs the one with the lowest    *)
(* priority number is taken first, in enqueue order within one priority.   *)
(* sanitize-filename is a library too: it drops the characters that are    *)
(* illegal in file names.                                                  *)
(***************************************************************************)
EXTENDS Integers, Sequences, FiniteSets, TLC

\* ---------------------------------------------------------------- bounds
NJobs == 2
MaxConcurrent == 1
MaxRuns == 2
MaxChan == 2
MaxRunsCtl == 3

\* ------------------------------------------------------ program constants
attempts == 2
maxStalledCount == 1

\* Time is counted in ticks: the watchdog timeout (60 s) is one tick and
\* JOB_TIMEOUT (2 h), which is longer, three.
JOB_TIMEOUT == 3
watchdogTimeout == 1

Jobs == 1..NJobs

\* The GID that aria2 gives to the download of a job, and all the ids that
\* an event can carry as its jobId.
Gid(j) == NJobs + j
Ids == 1..(2 * NJobs)
Null == "null"
Undef == "undefined"
\* Output lines of yt-dlp, by what the two regular expressions of
\* parseYtDlpProgressLine find in them:
\*   "[download]  50.0% of 10.00MiB at 1.00MiB/s ETA 00:05"  percent and size
\*   "[download] 100% of 10.00MiB in 00:05"                  size only
\*   "[download] Destination: video.mp4"                     neither
Lines == {[hasPercent |-> TRUE, percent |-> 50, hasSize |-> TRUE],
          [hasPercent |-> FALSE, percent |-> 0, hasSize |-> TRUE],
          [hasPercent |-> FALSE, percent |-> 0, hasSize |-> FALSE]}
ErrorCodes == {"NETWORK_ERROR", "VIDEO_UNAVAILABLE"}

\* A yt-dlp line whose percentage is computed against an estimated total.
LinesOver == Lines \cup {[hasPercent |-> TRUE, percent |-> 104, hasSize |-> TRUE]}

\* The last progress line of a yt-dlp download:
\*   "[download] 100.0% of 10.00MiB at 1.00MiB/s ETA 00:00"
LinesDone == Lines \cup {[hasPercent |-> TRUE, percent |-> 100, hasSize |-> TRUE]}

\* What aria2.tellStatus may return for a download: the lengths and the
\* speed are strings, here sequences of characters, the empty sequence
\* standing for a missing field.  Polls is the status of a download that is
\* half done.
Statuses == [totalLength : {<<>>, <<"0">>, <<"1", "0", "0">>, <<"x">>},
             completedLength : {<<>>, <<"5", "0">>, <<"1", "0", "0">>,
                                <<"-", "1">>},
             downloadSpeed : {<<>>, <<"0">>, <<"2", "5">>}]
Polls == {[totalLength |-> <<"1", "0", "0">>, completedLength |-> <<"5", "0">>,
           downloadSpeed |-> <<"2", "5">>]}

\* out_time_ms of an ffmpeg progress line and the duration that ffprobe
\* reports, in seconds.
OutTimes == {1, 3}
Durations == {0, 2}

\* Characters of a filename hint: one that sanitize-filename keeps and one
\* that it drops.
IllegalChars == {"/"}
Hints == {<<>>, <<"a">>, <<"a", "/">>, <<"/">>}

\* CreateDownloadDto: url, type, headers, transcode, filenameHint (the empty
\* hint stands for an absent one: both are falsy) and the twitter options.
\* Headers of a request: none, headers whose extra keys are all in the
\* allow-list ("h"), headers with an extra key outside it ("x").
Dtos == [url : {"u"}, type : {"auto", "youtube"},
         headers : {Undef, "h", "x"}, transcode : {Undef, "t"},
         filenameHint : Hints, twitter : {Undef, "tw"}]

DefaultDto == [url |-> "u", type |-> "youtube", headers |-> Undef,
               transcode |-> Undef, filenameHint |-> <<>>, twitter |-> Undef]

VARIABLES
    rows,            \* database table jobs, one row per job id
    broker,          \* BullMQ entry per job id: state and attemptsMade
    waitq,           \* BullMQ wait list, in enqueue order
    pc,              \* position of processJob for the job, "idle" if none
    run,             \* number of attempts started so far for the job
    connected,       \* WebSocketClient.socket.connected
    chan,            \* worker -> gateway messages in flight, per job
    progressBuffer,  \* WorkerEventsGateway.progressBuffer
    progressTimers,  \* WorkerEventsGateway.progressTimers (armed or not)
    flushing,        \* progress event whose timer write is awaited
    updating,        \* job-update whose status write is awaited
    cancelOk,        \* a Cancel succeeded and no Retry followed
    termPub,         \* runs whose completed/failed event reached the room
    lastPub,         \* event published to the room by the last step
    reply,           \* outcome of the API call made by the last step
    submitted,       \* the DTO each job was submitted with
    clock,           \* time a run has spent: in all, in its phase, in silence
    WORKER_TOKEN,    \* process.env.WORKER_TOKEN of the API process
    rogue,           \* a client without the worker's token is connected
    poll,            \* last aria2 status polled and what was made of it
    tempJobDir       \* the job's directory under TEMP_DIR holds files

vars == <<rows, broker, waitq, pc, run, connected, chan, progressBuffer,
          progressTimers, flushing, updating, cancelOk, termPub, lastPub,
          reply, submitted, clock, WORKER_TOKEN, rogue, poll, tempJobDir>>

\* What the steps of the job pipeline and of the gateway leave alone.
aux == <<submitted, clock, WORKER_TOKEN, rogue, poll, tempJobDir>>

\* ------------------------------------------------------------- data types
\* A row of table jobs.  The filename column holds a sequence of characters,
\* the empty sequence standing for NULL.
NoRow == [status |-> "absent", url |-> Null, type |-> Null, meta |-> Null,
          headers |-> Null, stage |-> Null, progress |-> 0,
          errorCode |-> Null, errorMessage |-> Null,
          filename |-> <<>>, outputPath |-> Null]

\* DownloadJobData, the payload of a queue entry.
NoData == [url |-> Null, type |-> Null, headers |-> Undef,
           transcode |-> Undef, filenameHint |-> <<>>, twitter |-> Undef]

NoEntry == [state |-> "none", attemptsStarted |-> 0, attemptsMade |-> 0,
            stalledCount |-> 0, priority |-> 0, data |-> NoData]

\* Outcome of an API call: the operation, the job id, the status the call
\* found in the row ("absent" when findUnique found none) and "ok" or the
\* exception thrown.
NoDto == [url |-> Null, type |-> Null, headers |-> Undef,
          transcode |-> Undef, filenameHint |-> <<>>, twitter |-> Undef]

\* Time since the run began, since its present child process was started,
\* and since its last progress event with a changed value.
NoClock == [total |-> 0, phase |-> 0, quiet |-> 0]

\* A JavaScript number that is an integer or NaN.
Num(n) == [nan |-> FALSE, n |-> n]

NaN == [nan |-> TRUE, n |-> 0]

\* The aria2 status of the last poll and the progress event made of it.
NoStatus == [totalLength |-> <<>>, completedLength |-> <<>>,
             downloadSpeed |-> <<>>]

NoDelta == [produced |-> FALSE, progress |-> Num(0), hasEta |-> FALSE,
            eta |-> Num(0), totalBytes |-> 0]

NoPoll == [status |-> NoStatus, delta |-> NoDelta]

NoReply == [op |-> "none", job |-> 0, found |-> "none", result |-> "none"]

Reply(op, j, found, result) ==
    [op |-> op, job |-> j, found |-> found, result |-> result]

NoMsg == [type |-> "none", job |-> 0, run |-> 0, status |-> Undef,
          stage |-> Undef, progress |-> 0, errorCode |-> Undef]

ProgressMsg(j, r, stage, p) ==
    [type |-> "progress", job |-> j, run |-> r, status |-> Undef,
     stage |-> stage, progress |-> p, errorCode |-> Undef]

CompletedMsg(j, r) ==
    [type |-> "completed", job |-> j, run |-> r, status |-> Undef,
     stage |-> Undef, progress |-> 0, errorCode |-> Undef]

FailedMsg(j, r, code) ==
    [type |-> "failed", job |-> j, run |-> r, status |-> Undef,
     stage |-> Undef, progress |-> 0, errorCode |-> code]

JobUpdateMsg(j, r, status) ==
    [type |-> "job-update", job |-> j, run |-> r, status |-> status,
     stage |-> Undef, progress |-> 0, errorCode |-> Undef]

\* Prisma leaves a column alone when the value given for it is undefined.
Keep(new, old) == IF new = Undef THEN old ELSE new

\* ------------------------------------------- DownloadsService row updates
updateJobProgress(row, progress, stage) ==
    [row EXCEPT !.progress = progress, !.stage = Keep(stage, @)]

updateJobStatus(row, status, errorCode, errorMessage) ==
    [row EXCEPT !.status = status,
                !.errorCode = Keep(errorCode, @),
                !.errorMessage = Keep(errorMessage, @)]

setJobCompleted(row, filename, outputPath) ==
    [row EXCEPT !.status = "completed", !.filename = filename,
                !.outputPath = outputPath, !.progress = 100,
                !.stage = "completed"]

\* ------------------------------------------------------------------ Init
Boot ==
    /\ rows = [j \in Jobs |-> NoRow]
    /\ broker = [j \in Jobs |-> NoEntry]
    /\ waitq = <<>>
    /\ pc = [j \in Jobs |-> "idle"]
    /\ run = [j \in Jobs |-> 0]
    /\ connected = FALSE
    /\ chan = [j \in Jobs |-> <<>>]
    /\ progressBuffer = [i \in Ids |-> NoMsg]
    /\ progressTimers = [i \in Ids |-> FALSE]
    /\ flushing = [i \in Ids |-> NoMsg]
    /\ updating = [j \in Jobs |-> NoMsg]
    /\ cancelOk = [j \in Jobs |-> FALSE]
    /\ termPub = [j \in Jobs |-> {}]
    /\ lastPub = NoMsg
    /\ reply = NoReply
    /\ submitted = [j \in Jobs |-> NoDto]
    /\ clock = [j \in Jobs |-> NoClock]
    /\ rogue = FALSE
    /\ poll = NoPoll
    /\ tempJobDir = [j \in Jobs |-> FALSE]

\* The API process is started with WORKER_TOKEN set.
Init == Boot /\ WORKER_TOKEN = "secret"

\* The API process is started with or without WORKER_TOKEN in its
\* environment.
InitAuth == Boot /\ WORKER_TOKEN \in {Undef, "secret"}

RemoveFromSeq(s, x) == SelectSeq(s, LAMBDA y : y # x)

\* --------------------------------------------------------- QueueService
\* A queue that adds an entry whether or not the job id is still known.
addDownloadJobAgain(b, q, j, data) ==
    <<[b EXCEPT ![j] = [state |-> "wait", attemptsStarted |-> 0,
                        attemptsMade |-> 0, stalledCount |-> 0,
                        priority |-> IF data.type = "youtube" THEN 5 ELSE 3,
                        data |-> data]],
      Append(RemoveFromSeq(q, j), j)>>

\* Queue.add('download', data, {jobId, priority}): priority 3, or 5 for
\* type youtube; ignored when the id is still known.
addDownloadJob(b, q, j, data) ==
    IF b[j].state = "none"
    THEN <<[b EXCEPT ![j] = [state |-> "wait", attemptsStarted |-> 0,
                             attemptsMade |-> 0, stalledCount |-> 0,
                             priority |-> IF data.type = "youtube"
                                          THEN 5 ELSE 3,
                             data |-> data]],
           Append(q, j)>>
    ELSE <<b, q>>

\* removeJob: getJob, then job.remove() when the entry exists.
removeJobThrows(b, j) == b[j].state = "active"

removeJob(b, q, j) ==
    IF b[j].state = "none" THEN <<b, q>>
    ELSE <<[b EXCEPT ![j] = NoEntry], RemoveFromSeq(q, j)>>

\* ------------------------------------------------------ DownloadsService
\* sanitizeFilename(dto.filenameHint)
sanitizeFilename(hint) == SelectSeq(hint, LAMBDA c : c \notin IllegalChars)

\* A call that throws before it has written anything.
Rejects(op, j, result) ==
    /\ reply' = Reply(op, j, rows[j].status, result)
    /\ lastPub' = NoMsg
    /\ UNCHANGED <<aux, rows, broker, waitq, pc, run, connected, chan,
                   progressBuffer, progressTimers, flushing, updating,
                   cancelOk, termPub>>

\* JSON.stringify and JSON.parse of the headers and transcode objects.
JSONstringify == [v \in {"h", "t"} |-> IF v = "h" THEN "{h}" ELSE "{t}"]

JSONparse(text) == CHOOSE v \in DOMAIN JSONstringify : JSONstringify[v] = text

\* The validation of createDownload: the filename hint must not be empty
\* after sanitization, the extra header keys must be in the allow-list.
InvalidInput(dto) ==
    \/ dto.filenameHint # <<>> /\ sanitizeFilename(dto.filenameHint) = <<>>
    \/ dto.headers = "x"

createDownloadRejects(j, dto) ==
    /\ rows[j].status = "absent"
    /\ \A i \in Jobs : i < j => rows[i].status # "absent"
    /\ InvalidInput(dto)
    /\ Rejects("create", j, "BadRequestException")

\* The row that database.job.create makes for a DTO.
NewRow(dto) ==
    [NoRow EXCEPT
       !.status = "queued", !.url = dto.url, !.type = dto.type,
       !.meta = IF dto.transcode = Undef THEN Null
                ELSE JSONstringify[dto.transcode],
       !.headers = IF dto.headers = Undef THEN Null
                   ELSE JSONstringify[dto.headers],
       !.filename = sanitizeFilename(dto.filenameHint)]

\* queue.addDownloadJob throws (Redis cannot be reached) after the row was
\* created.
createDownloadEnqueueFails(j, dto) ==
    /\ rows[j].status = "absent"
    /\ \A i \in Jobs : i < j => rows[i].status # "absent"
    /\ ~InvalidInput(dto)
    /\ rows' = [rows EXCEPT ![j] = NewRow(dto)]
    /\ submitted' = [submitted EXCEPT ![j] = dto]
    /\ lastPub' = NoMsg
    /\ reply' = Reply("create", j, rows[j].status, "Error")
    /\ UNCHANGED <<broker, waitq, pc, run, connected, chan, progressBuffer,
                   progressTimers, flushing, updating, cancelOk, termPub,
                   clock, WORKER_TOKEN, rogue, poll, tempJobDir>>

createDownload(j, dto) ==
    /\ rows[j].status = "absent"
    /\ \A i \in Jobs : i < j => rows[i].status # "absent"
    /\ ~InvalidInput(dto)
    /\ rows' = [rows EXCEPT ![j] = NewRow(dto)]
    /\ LET r == addDownloadJob(broker, waitq, j,
                               [url |-> dto.url, type |-> dto.type,
                                headers |-> dto.headers,
                                transcode |-> dto.transcode,
                                filenameHint |->
                                  sanitizeFilename(dto.filenameHint),
                                twitter |-> Undef])
       IN broker' = r[1] /\ waitq' = r[2]
    /\ submitted' = [submitted EXCEPT ![j] = dto]
    /\ lastPub' = NoMsg
    /\ reply' = Reply("create", j, rows[j].status, "ok")
    /\ UNCHANGED <<pc, run, connected, chan, progressBuffer,
                   progressTimers, flushing, updating, cancelOk, termPub,
                   clock, WORKER_TOKEN, rogue, poll, tempJobDir>>

\* What GET /downloads/:jobId returns for a row.
getDownload(row) ==
    [url |-> row.url, type |-> row.type, status |-> row.status,
     stage |-> row.stage, progress |-> row.progress,
     filename |-> row.filename, errorCode |-> row.errorCode,
     errorMessage |-> row.errorMessage]

cancelDownloadRejects(j) ==
    \/ /\ rows[j].status = "absent"
       /\ Rejects("cancel", j, "NotFoundException")
    \/ /\ rows[j].status = "completed"
       /\ Rejects("cancel", j, "BadRequestException")
    \/ /\ rows[j].status \notin {"absent", "completed"}
       /\ removeJobThrows(broker, j)
       /\ Rejects("cancel", j, "Error")

\* A Cancel that also resets the progress of the row.
cancelDownloadResetting(j) ==
    /\ rows[j].status \notin {"absent", "completed"}
    /\ ~removeJobThrows(broker, j)
    /\ LET r == removeJob(broker, waitq, j)
       IN broker' = r[1] /\ waitq' = r[2]
    /\ rows' = [rows EXCEPT ![j].status = "cancelled", ![j].stage = Null,
                            ![j].progress = 0]
    /\ cancelOk' = [cancelOk EXCEPT
                      ![j] = @ \/ rows[j].status \in {"queued", "running"}]
    /\ lastPub' = NoMsg
    /\ reply' = Reply("cancel", j, rows[j].status, "ok")
    /\ UNCHANGED <<aux, pc, run, connected, chan, progressBuffer,
                   progressTimers, flushing, updating, termPub>>

cancelDownload(j) ==
    /\ rows[j].status \notin {"absent", "completed"}
    /\ ~removeJobThrows(broker, j)
    /\ LET r == removeJob(broker, waitq, j)
       IN broker' = r[1] /\ waitq' = r[2]
    /\ rows' = [rows EXCEPT ![j].status = "cancelled", ![j].stage = Null]
    /\ cancelOk' = [cancelOk EXCEPT
                      ![j] = @ \/ rows[j].status \in {"queued", "running"}]
    /\ lastPub' = NoMsg
    /\ reply' = Reply("cancel", j, rows[j].status, "ok")
    /\ UNCHANGED <<aux, pc, run, connected, chan, progressBuffer,
                   progressTimers, flushing, updating, termPub>>

pauseDownloadRejects(j) ==
    \/ /\ rows[j].status = "absent"
       /\ Rejects("pause", j, "NotFoundException")
    \/ /\ rows[j].status \notin {"absent", "running"}
       /\ Rejects("pause", j, "BadRequestException")

\* queue.pauseJob only logs a warning.
pauseDownload(j) ==
    /\ rows[j].status = "running"
    /\ rows' = [rows EXCEPT ![j].status = "paused"]
    /\ lastPub' = NoMsg
    /\ reply' = Reply("pause", j, rows[j].status, "ok")
    /\ UNCHANGED <<aux, broker, waitq, pc, run, connected, chan,
                   progressBuffer, progressTimers, flushing, updating,
                   cancelOk, termPub>>

resumeDownloadRejects(j) ==
    \/ /\ rows[j].status = "absent"
       /\ Rejects("resume", j, "NotFoundException")
    \/ /\ rows[j].status \notin {"absent", "paused"}
       /\ Rejects("resume", j, "BadRequestException")

\* queue.resumeJob only logs a warning.
resumeDownload(j) ==
    /\ rows[j].status = "paused"
    /\ rows' = [rows EXCEPT ![j].status = "queued"]
    /\ lastPub' = NoMsg
    /\ reply' = Reply("resume", j, rows[j].status, "ok")
    /\ UNCHANGED <<aux, broker, waitq, pc, run, connected, chan,
                   progressBuffer, progressTimers, flushing, updating,
                   cancelOk, termPub>>

retryDownloadRejects(j) ==
    \/ /\ rows[j].status = "absent"
       /\ Rejects("retry", j, "NotFoundException")
    \/ /\ rows[j].status \notin {"absent", "failed", "cancelled"}
       /\ Rejects("retry", j, "BadRequestException")

\* The job data that retryDownload builds from the row.
RetryData(row) ==
    [url |-> row.url, type |-> row.type,
     headers |-> IF row.headers = Null THEN Undef ELSE JSONparse(row.headers),
     transcode |-> IF row.meta = Null THEN Undef ELSE JSONparse(row.meta),
     filenameHint |-> row.filename, twitter |-> Undef]

\* A Retry that is also accepted for a completed job.
retryDownloadOfCompleted(j) ==
    /\ rows[j].status \in {"failed", "cancelled", "completed"}
    /\ rows' = [rows EXCEPT ![j].status = "queued", ![j].progress = 0,
                            ![j].stage = Null, ![j].errorCode = Null,
                            ![j].errorMessage = Null]
    /\ LET r == addDownloadJob(broker, waitq, j, RetryData(rows[j]))
       IN broker' = r[1] /\ waitq' = r[2]
    /\ cancelOk' = [cancelOk EXCEPT ![j] = FALSE]
    /\ lastPub' = NoMsg
    /\ reply' = Reply("retry", j, rows[j].status, "ok")
    /\ UNCHANGED <<aux, pc, run, connected, chan, progressBuffer,
                   progressTimers, flushing, updating, termPub>>

retryDownload(j) ==
    /\ rows[j].status \in {"failed", "cancelled"}
    /\ rows' = [rows EXCEPT ![j].status = "queued", ![j].progress = 0,
                            ![j].stage = Null, ![j].errorCode = Null,
                            ![j].errorMessage = Null]
    /\ LET r == addDownloadJob(broker, waitq, j, RetryData(rows[j]))
       IN broker' = r[1] /\ waitq' = r[2]
    /\ cancelOk' = [cancelOk EXCEPT ![j] = FALSE]
    /\ lastPub' = NoMsg
    /\ reply' = Reply("retry", j, rows[j].status, "ok")
    /\ UNCHANGED <<aux, pc, run, connected, chan, progressBuffer,
                   progressTimers, flushing, updating, termPub>>

\* ----------------------------------------------------- WebSocketClient
\* emitProgress/emitCompleted/emitFailed/emitJobUpdate: sent only while the
\* socket is connected, dropped otherwise.  What was sent but not yet
\* delivered when the connection breaks is lost with it.
emit(c, msgs) == IF connected THEN c \o msgs ELSE c

CanEmit(j, n) == connected => Len(chan[j]) + n <= MaxChan

WsConnect ==
    /\ ~connected
    /\ connected' = TRUE
    /\ lastPub' = NoMsg
    /\ reply' = NoReply
    /\ UNCHANGED <<aux, rows, broker, waitq, pc, run, chan, progressBuffer,
                   progressTimers, flushing, updating, cancelOk, termPub>>

WsDisconnect ==
    /\ connected
    /\ connected' = FALSE
    /\ chan' = [j \in Jobs |-> <<>>]
    /\ lastPub' = NoMsg
    /\ reply' = NoReply
    /\ UNCHANGED <<aux, rows, broker, waitq, pc, run, progressBuffer,
                   progressTimers, flushing, updating, cancelOk, termPub>>

\* ------------------------------------------------------- BullMQ Worker
ActiveCount == Cardinality({j \in Jobs : broker[j].state = "active"})

\* The waiting job that is taken next: lowest priority number first, enqueue
\* order within one priority.
NextWaiting ==
    waitq[CHOOSE i \in 1..Len(waitq) :
            \A k \in 1..Len(waitq) :
              \/ broker[waitq[k]].priority > broker[waitq[i]].priority
              \/ /\ broker[waitq[k]].priority = broker[waitq[i]].priority
                 /\ k >= i]

\* The worker takes the next waiting job while it has a free slot.
Reserve(j, maxRuns) ==
    /\ waitq # <<>>
    /\ NextWaiting = j
    /\ ActiveCount < MaxConcurrent
    /\ run[j] < maxRuns
    /\ broker' = [broker EXCEPT ![j].state = "active",
                                ![j].attemptsStarted = @ + 1]
    /\ waitq' = RemoveFromSeq(waitq, j)
    /\ pc' = [pc EXCEPT ![j] = "start"]
    /\ run' = [run EXCEPT ![j] = @ + 1]
    /\ lastPub' = NoMsg
    /\ reply' = NoReply
    /\ UNCHANGED <<aux, rows, connected, chan, progressBuffer, progressTimers,
                   flushing, updating, cancelOk, termPub>>

\* The worker process dies while it processes jobs (and is started again):
\* its processJob invocations and its socket are gone, the jobs stay in the
\* active list until the stalled check finds their locks expired.
WorkerCrash ==
    /\ \E j \in Jobs : pc[j] # "idle"
    /\ pc' = [j \in Jobs |-> "idle"]
    /\ connected' = FALSE
    /\ chan' = [j \in Jobs |-> <<>>]
    /\ lastPub' = NoMsg
    /\ reply' = NoReply
    /\ UNCHANGED <<aux, rows, broker, waitq, run, progressBuffer, progressTimers,
                   flushing, updating, cancelOk, termPub>>

\* The stalled check (stalledInterval) for an active job without a lock:
\* back to wait, or failed once maxStalledCount is exceeded.
moveStalledJobsToWait(j) ==
    /\ broker[j].state = "active"
    /\ pc[j] = "idle"
    /\ IF broker[j].stalledCount + 1 > maxStalledCount
       THEN /\ broker' = [broker EXCEPT ![j].state = "failed",
                                        ![j].stalledCount = @ + 1]
            /\ waitq' = waitq
       ELSE /\ broker' = [broker EXCEPT ![j].state = "wait",
                                        ![j].stalledCount = @ + 1]
            /\ waitq' = Append(waitq, j)
    /\ lastPub' = NoMsg
    /\ reply' = NoReply
    /\ UNCHANGED <<aux, rows, pc, run, connected, chan, progressBuffer,
                   progressTimers, flushing, updating, cancelOk, termPub>>

\* Backoff of a failed attempt elapsed: delayed -> wait.
Promote(j) ==
    /\ broker[j].state = "delayed"
    /\ broker' = [broker EXCEPT ![j].state = "wait"]
    /\ waitq' = Append(waitq, j)
    /\ lastPub' = NoMsg
    /\ reply' = NoReply
    /\ UNCHANGED <<aux, rows, pc, run, connected, chan, progressBuffer,
                   progressTimers, flushing, updating, cancelOk, termPub>>

\* ------------------------------------------- DownloadWorker.processJob
\* The child process of the present phase has reached JOB_TIMEOUT: execa
\* kills it (yt-dlp, ffmpeg), the aria2 monitor loop throws.
TimedOut(j) == clock[j].phase >= JOB_TIMEOUT

\* yt-dlp downloads types youtube and m3u8, aria2 every other type.
UsesYtDlp(j) == broker[j].data.type \in {"youtube", "m3u8"}

\* updateJobStatus(jobId, 'running'), then the start of the download stage.
processJobStart(j) ==
    /\ pc[j] = "start"
    /\ CanEmit(j, 2)
    /\ rows' = [rows EXCEPT ![j] =
                  [updateJobStatus(@, "running", Undef, Undef)
                     EXCEPT !.stage = "download", !.progress = 0]]
    /\ chan' = [chan EXCEPT ![j] =
                  emit(@, <<JobUpdateMsg(j, run[j], "running"),
                            ProgressMsg(j, run[j], "download", 0)>>)]
    /\ pc' = [pc EXCEPT ![j] = "download"]
    /\ clock' = [clock EXCEPT ![j] = NoClock]
    /\ lastPub' = NoMsg
    /\ reply' = NoReply
    /\ UNCHANGED <<broker, waitq, run, connected, progressBuffer,
                   progressTimers, flushing, updating, cancelOk, termPub,
                   submitted, WORKER_TOKEN, rogue, poll,
                   tempJobDir>>

\* progress ?? 0 when the line has a percentage or a size, null (matched
\* FALSE) otherwise.
parseYtDlpProgressLine(line) ==
    IF line.hasPercent \/ line.hasSize
    THEN [matched |-> TRUE,
          progress |-> IF line.hasPercent THEN line.percent ELSE 0]
    ELSE [matched |-> FALSE, progress |-> 0]

\* YtDlpDownloader.parseProgress for one stderr line: emitProgress and the
\* onProgress callback, which writes the row.
processJobProgress(j, line) ==
    /\ pc[j] = "download"
    /\ UsesYtDlp(j)
    /\ ~TimedOut(j)
    /\ CanEmit(j, 1)
    /\ LET parsed == parseYtDlpProgressLine(line) IN
         /\ parsed.matched
         /\ chan' = [chan EXCEPT ![j] =
                       emit(@, <<ProgressMsg(j, run[j], "download",
                                             parsed.progress)>>)]
         /\ rows' = [rows EXCEPT ![j].progress = parsed.progress,
                                 ![j].stage = "download"]
         /\ clock' = [clock EXCEPT ![j].quiet =
                        IF parsed.progress # rows[j].progress THEN 0 ELSE @]
    /\ tempJobDir' = [tempJobDir EXCEPT ![j] = TRUE]
    /\ lastPub' = NoMsg
    /\ reply' = NoReply
    /\ UNCHANGED <<broker, waitq, pc, run, connected, progressBuffer,
                   progressTimers, flushing, updating, cancelOk, termPub,
                   submitted, WORKER_TOKEN, rogue, poll>>

\* parseInt(str): the decimal digits at the start of the string, after an
\* optional minus sign; NaN when there is none.
DigitChars == <<"0", "1", "2", "3", "4", "5", "6", "7", "8", "9">>

IsDigit(c) == \E d \in 1..10 : DigitChars[d] = c

RECURSIVE digitsValue(_, _)
digitsValue(str, acc) ==
    IF str = <<>> \/ ~IsDigit(Head(str)) THEN acc
    ELSE digitsValue(Tail(str),
                     10 * acc + (CHOOSE d \in 1..10 : DigitChars[d] = Head(str)) - 1)

parseInt(str) ==
    LET neg == str # <<>> /\ Head(str) = "-"
        body == IF neg THEN Tail(str) ELSE str
    IN IF body = <<>> \/ ~IsDigit(Head(body)) THEN NaN
       ELSE Num(IF neg THEN 0 - digitsValue(body, 0) ELSE digitsValue(body, 0))

\* status.field || '0'
OrZero(str) == IF str = <<>> THEN <<"0">> ELSE str

\* What monitorDownload makes of one aria2 status: a progress event when
\* totalLength > 0 (a comparison that NaN fails), with eta only when
\* downloadSpeed > 0.  Arithmetic on NaN gives NaN.
aria2Progress(status) ==
    LET totalLength == parseInt(OrZero(status.totalLength))
        completedLength == parseInt(OrZero(status.completedLength))
        downloadSpeed == parseInt(OrZero(status.downloadSpeed))
    IN IF ~totalLength.nan /\ totalLength.n > 0
       THEN [produced |-> TRUE,
             progress |-> IF completedLength.nan THEN NaN
                          ELSE Num((completedLength.n * 100) \div totalLength.n),
             hasEta |-> ~downloadSpeed.nan /\ downloadSpeed.n > 0,
             eta |-> IF ~downloadSpeed.nan /\ downloadSpeed.n > 0
                     THEN IF completedLength.nan THEN NaN
                          ELSE Num((totalLength.n - completedLength.n)
                                     \div downloadSpeed.n)
                     ELSE Num(0),
             totalBytes |-> totalLength.n]
       ELSE NoDelta

\* Aria2Downloader.monitorDownload, one poll of a download that is under
\* way: the progress event carries the aria2 GID as its jobId (NaN travels
\* as null); the row is not written.
monitorDownload(j, status) ==
    /\ pc[j] = "download"
    /\ ~UsesYtDlp(j)
    /\ ~TimedOut(j)
    /\ CanEmit(j, 1)
    /\ LET delta == aria2Progress(status) IN
         /\ poll' = [status |-> status, delta |-> delta]
         /\ chan' = IF delta.produced
                    THEN [chan EXCEPT ![j] =
                            emit(@, <<ProgressMsg(Gid(j), run[j], "download",
                                                  IF delta.progress.nan
                                                  THEN Null
                                                  ELSE delta.progress.n)>>)]
                    ELSE chan
         /\ clock' = IF delta.produced THEN [clock EXCEPT ![j].quiet = 0]
                     ELSE clock
         /\ tempJobDir' = [tempJobDir EXCEPT ![j] = @ \/ delta.produced]
    /\ lastPub' = NoMsg
    /\ reply' = NoReply
    /\ UNCHANGED <<rows, broker, waitq, pc, run, connected, progressBuffer,
                   progressTimers, flushing, updating, cancelOk, termPub,
                   submitted, WORKER_TOKEN, rogue>>

\* Stage 2 begins when job.data.transcode is set: the progress event of the
\* stage start, then ffmpeg is started.
processJobTranscode(j) ==
    /\ pc[j] = "download"
    /\ broker[j].data.transcode # Undef
    /\ ~TimedOut(j)
    /\ CanEmit(j, 1)
    /\ chan' = [chan EXCEPT ![j] =
                  emit(@, <<ProgressMsg(j, run[j], "transcode", 0)>>)]
    /\ pc' = [pc EXCEPT ![j] = "transcode"]
    /\ clock' = [clock EXCEPT ![j].phase = 0, ![j].quiet = 0]
    /\ tempJobDir' = [tempJobDir EXCEPT ![j] = TRUE]
    /\ lastPub' = NoMsg
    /\ reply' = NoReply
    /\ UNCHANGED <<rows, broker, waitq, run, connected, progressBuffer,
                   progressTimers, flushing, updating, cancelOk, termPub,
                   submitted, WORKER_TOKEN, rogue, poll>>

\* Percentage of a line out_time_ms=<outTime> (here in seconds) for a video
\* of totalDuration seconds; null (matched FALSE) without a duration.
parseFfmpegOutTimeMs(outTime, totalDuration) ==
    IF totalDuration <= 0 THEN [matched |-> FALSE, progress |-> 0]
    ELSE LET pct == (outTime * 100) \div totalDuration
         IN [matched |-> TRUE, progress |-> IF pct < 100 THEN pct ELSE 100]

\* FfmpegTranscoder.parseProgress for one line: emitProgress and the
\* onProgress callback, which writes the row.
transcodeProgress(j, outTime, totalDuration) ==
    /\ pc[j] = "transcode"
    /\ ~TimedOut(j)
    /\ CanEmit(j, 1)
    /\ LET parsed == parseFfmpegOutTimeMs(outTime, totalDuration) IN
         /\ parsed.matched
         /\ chan' = [chan EXCEPT ![j] =
                       emit(@, <<ProgressMsg(j, run[j], "transcode",
                                             parsed.progress)>>)]
         /\ rows' = [rows EXCEPT ![j].progress = parsed.progress,
                                 ![j].stage = "transcode"]
         /\ clock' = [clock EXCEPT ![j].quiet =
                        IF parsed.progress # rows[j].progress THEN 0 ELSE @]
    /\ tempJobDir' = [tempJobDir EXCEPT ![j] = TRUE]
    /\ lastPub' = NoMsg
    /\ reply' = NoReply
    /\ UNCHANGED <<broker, waitq, pc, run, connected, progressBuffer,
                   progressTimers, flushing, updating, cancelOk, termPub,
                   submitted, WORKER_TOKEN, rogue, poll>>

\* Time passes for a run whose child process is alive.
Tick(j) ==
    /\ pc[j] \in {"download", "transcode"}
    /\ ~TimedOut(j)
    /\ clock' = [clock EXCEPT ![j] = [total |-> @.total + 1,
                                      phase |-> @.phase + 1,
                                      quiet |-> @.quiet + 1]]
    /\ lastPub' = NoMsg
    /\ reply' = NoReply
    /\ UNCHANGED <<rows, broker, waitq, pc, run, connected, chan,
                   progressBuffer, progressTimers, flushing, updating,
                   cancelOk, termPub, submitted, WORKER_TOKEN, rogue,
                   poll, tempJobDir>>

\* Stage 3: finalize, the completed row write and the completed event.
processJobFinalize(j) ==
    /\ \/ pc[j] = "download" /\ broker[j].data.transcode = Undef
       \/ pc[j] = "transcode"
    /\ ~TimedOut(j)
    /\ CanEmit(j, 2)
    /\ chan' = [chan EXCEPT ![j] =
                  emit(@, <<ProgressMsg(j, run[j], "finalize", 90),
                            CompletedMsg(j, run[j])>>)]
    /\ rows' = [rows EXCEPT ![j] = setJobCompleted(@, <<"f">>, "path")]
    /\ pc' = [pc EXCEPT ![j] = "finished"]
    /\ lastPub' = NoMsg
    /\ reply' = NoReply
    /\ UNCHANGED <<aux, broker, waitq, run, connected, progressBuffer,
                   progressTimers, flushing, updating, cancelOk, termPub>>

\* fs.rm of the temporary directory, then processJob returns: BullMQ moves
\* the job to completed and frees the slot.
processJobReturn(j) ==
    /\ pc[j] = "finished"
    /\ broker' = [broker EXCEPT ![j].state = "completed"]
    /\ pc' = [pc EXCEPT ![j] = "idle"]
    /\ lastPub' = NoMsg
    /\ reply' = NoReply
    /\ tempJobDir' = [tempJobDir EXCEPT ![j] = FALSE]
    /\ UNCHANGED <<submitted, clock, WORKER_TOKEN, rogue, poll, rows, waitq, run, connected, chan, progressBuffer,
                   progressTimers, flushing, updating, cancelOk, termPub>>

\* The catch block: updateJobStatus(jobId, 'failed', ...) and emitFailed.
processJobCatch(j, code) ==
    /\ pc[j] \in {"download", "transcode"}
    /\ CanEmit(j, 2)
    /\ rows' = [rows EXCEPT ![j] = updateJobStatus(@, "failed", code, "msg")]
    /\ chan' = [chan EXCEPT ![j] =
                  emit(@, <<JobUpdateMsg(j, run[j], "failed"),
                            FailedMsg(j, run[j], code)>>)]
    /\ pc' = [pc EXCEPT ![j] = "throwing"]
    /\ lastPub' = NoMsg
    /\ reply' = NoReply
    /\ UNCHANGED <<aux, broker, waitq, run, connected, progressBuffer,
                   progressTimers, flushing, updating, cancelOk, termPub>>

\* fs.rm of the temporary directory rejects (EACCES, EBUSY, ENOTEMPTY) after
\* the completed row write and the completed event: the rejection is thrown
\* inside the try block, so the catch block runs with error.code.
processJobRmThrows(j, code) ==
    /\ pc[j] = "finished"
    /\ CanEmit(j, 2)
    /\ rows' = [rows EXCEPT ![j] = updateJobStatus(@, "failed", code, "msg")]
    /\ chan' = [chan EXCEPT ![j] =
                  emit(@, <<JobUpdateMsg(j, run[j], "failed"),
                            FailedMsg(j, run[j], code)>>)]
    /\ pc' = [pc EXCEPT ![j] = "throwing"]
    /\ lastPub' = NoMsg
    /\ reply' = NoReply
    /\ UNCHANGED <<aux, broker, waitq, run, connected, progressBuffer,
                   progressTimers, flushing, updating, cancelOk, termPub>>

\* `throw error`: BullMQ counts the attempt and schedules a retry or fails.
processJobThrow(j) ==
    /\ pc[j] = "throwing"
    /\ broker' = [broker EXCEPT
                    ![j].attemptsMade = @ + 1,
                    ![j].state = IF broker[j].attemptsMade + 1 < attempts
                                 THEN "delayed" ELSE "failed"]
    /\ pc' = [pc EXCEPT ![j] = "idle"]
    /\ lastPub' = NoMsg
    /\ reply' = NoReply
    /\ UNCHANGED <<aux, rows, waitq, run, connected, chan, progressBuffer,
                   progressTimers, flushing, updating, cancelOk, termPub>>

\* ------------------------------------------------- WorkerEventsGateway
\* handleConnection for a client other than the worker, which presents no
\* token or a wrong one: disconnected when WORKER_TOKEN is set and differs.
handleConnection(token) ==
    /\ token # "secret"
    /\ rogue' = ~(WORKER_TOKEN # Undef /\ token # WORKER_TOKEN)
    /\ lastPub' = NoMsg
    /\ reply' = NoReply
    /\ UNCHANGED <<rows, broker, waitq, pc, run, connected, chan,
                   progressBuffer, progressTimers, flushing, updating,
                   cancelOk, termPub, submitted, clock, WORKER_TOKEN,
                   poll, tempJobDir>>

\* The messages that such a client can send about job j; they belong to no
\* run of the worker (run 0).
Forged(j) == {ProgressMsg(j, 0, "download", 50), CompletedMsg(j, 0),
              FailedMsg(j, 0, "NETWORK_ERROR"), JobUpdateMsg(j, 0, "failed")}

\* A client whose connection was left open sends a message to the gateway.
forgedEmit(j, msg) ==
    /\ rogue
    /\ Len(chan[j]) < MaxChan
    /\ chan' = [chan EXCEPT ![j] = Append(@, msg)]
    /\ lastPub' = NoMsg
    /\ reply' = NoReply
    /\ UNCHANGED <<aux, rows, broker, waitq, pc, run, connected,
                   progressBuffer, progressTimers, flushing, updating,
                   cancelOk, termPub>>

\* A relay that is throttled together with the database write.
handleProgressThrottled(j) ==
    /\ chan[j] # <<>>
    /\ Head(chan[j]).type = "progress"
    /\ LET event == Head(chan[j]) IN
         /\ chan' = [chan EXCEPT ![j] = Tail(@)]
         /\ lastPub' = IF progressTimers[event.job] THEN NoMsg ELSE event
         /\ progressBuffer' = [progressBuffer EXCEPT ![event.job] = event]
         /\ progressTimers' = [progressTimers EXCEPT ![event.job] = TRUE]
    /\ reply' = NoReply
    /\ UNCHANGED <<aux, rows, broker, waitq, pc, run, connected, flushing,
                   updating, cancelOk, termPub>>

\* handleProgress: emitProgress to the room job:<event.jobId>, buffer the
\* event under event.jobId, arm the timer of that id unless one is armed.
handleProgress(j) ==
    /\ chan[j] # <<>>
    /\ Head(chan[j]).type = "progress"
    /\ LET event == Head(chan[j]) IN
         /\ chan' = [chan EXCEPT ![j] = Tail(@)]
         /\ lastPub' = event
         /\ progressBuffer' = [progressBuffer EXCEPT ![event.job] = event]
         /\ progressTimers' = [progressTimers EXCEPT ![event.job] = TRUE]
    /\ reply' = NoReply
    /\ UNCHANGED <<aux, rows, broker, waitq, pc, run, connected, flushing,
                   updating, cancelOk, termPub>>

\* A timer callback that writes the buffered stage with a percentage of 0.
progressTimerFireStale(i) ==
    /\ progressTimers[i]
    /\ progressBuffer[i] # NoMsg => flushing[i] = NoMsg
    /\ progressTimers' = [progressTimers EXCEPT ![i] = FALSE]
    /\ flushing' = [flushing EXCEPT ![i] =
                      IF progressBuffer[i] = NoMsg THEN @
                      ELSE [progressBuffer[i] EXCEPT !.progress = 0]]
    /\ lastPub' = NoMsg
    /\ reply' = NoReply
    /\ UNCHANGED <<aux, rows, broker, waitq, pc, run, connected, chan,
                   progressBuffer, updating, cancelOk, termPub>>

\* The setTimeout callback up to its await of updateJobProgress.
progressTimerFire(i) ==
    /\ progressTimers[i]
    /\ progressBuffer[i] # NoMsg => flushing[i] = NoMsg
    /\ progressTimers' = [progressTimers EXCEPT ![i] = FALSE]
    /\ flushing' = [flushing EXCEPT ![i] =
                      IF progressBuffer[i] = NoMsg THEN @
                      ELSE progressBuffer[i]]
    /\ lastPub' = NoMsg
    /\ reply' = NoReply
    /\ UNCHANGED <<aux, rows, broker, waitq, pc, run, connected, chan,
                   progressBuffer, updating, cancelOk, termPub>>

\* The awaited updateJobProgress settles (an update of a row that does not
\* exist rejects); finally: progressBuffer.delete.
progressFlushLand(i, ok) ==
    /\ flushing[i] # NoMsg
    /\ rows' = IF ok /\ i \in Jobs
               THEN [rows EXCEPT ![i] =
                       updateJobProgress(@, flushing[i].progress,
                                         flushing[i].stage)]
               ELSE rows
    /\ progressBuffer' = [progressBuffer EXCEPT ![i] = NoMsg]
    /\ flushing' = [flushing EXCEPT ![i] = NoMsg]
    /\ lastPub' = NoMsg
    /\ reply' = NoReply
    /\ UNCHANGED <<aux, broker, waitq, pc, run, connected, chan, progressTimers,
                   updating, cancelOk, termPub>>

\* A completed handler that leaves the throttle timer and the buffer alone.
handleCompletedKeepingTimer(j, ok) ==
    /\ chan[j] # <<>>
    /\ Head(chan[j]).type = "completed"
    /\ LET event == Head(chan[j]) IN
         /\ chan' = [chan EXCEPT ![j] = Tail(@)]
         /\ termPub' = [termPub EXCEPT ![j] = @ \cup {event.run}]
         /\ lastPub' = event
    /\ rows' = IF ok
               THEN [rows EXCEPT ![j] = setJobCompleted(@, <<"f">>, "path")]
               ELSE rows
    /\ reply' = NoReply
    /\ UNCHANGED <<aux, broker, waitq, pc, run, connected, progressBuffer,
                   progressTimers, flushing, updating, cancelOk>>

\* handleCompleted: clearTimeout, delete the timer and the buffer of the
\* job, await setJobCompleted (a rejection is logged), emitCompleted.
handleCompleted(j, ok) ==
    /\ chan[j] # <<>>
    /\ Head(chan[j]).type = "completed"
    /\ LET event == Head(chan[j]) IN
         /\ chan' = [chan EXCEPT ![j] = Tail(@)]
         /\ termPub' = [termPub EXCEPT ![j] = @ \cup {event.run}]
         /\ lastPub' = event
    /\ progressTimers' = [progressTimers EXCEPT ![j] = FALSE]
    /\ progressBuffer' = [progressBuffer EXCEPT ![j] = NoMsg]
    /\ rows' = IF ok
               THEN [rows EXCEPT ![j] = setJobCompleted(@, <<"f">>, "path")]
               ELSE rows
    /\ reply' = NoReply
    /\ UNCHANGED <<aux, broker, waitq, pc, run, connected, flushing, updating,
                   cancelOk>>

handleFailed(j, ok) ==
    /\ chan[j] # <<>>
    /\ Head(chan[j]).type = "failed"
    /\ LET event == Head(chan[j]) IN
         /\ chan' = [chan EXCEPT ![j] = Tail(@)]
         /\ termPub' = [termPub EXCEPT ![j] = @ \cup {event.run}]
         /\ lastPub' = event
         /\ rows' = IF ok
                    THEN [rows EXCEPT ![j] =
                            updateJobStatus(@, "failed", event.errorCode, "msg")]
                    ELSE rows
    /\ progressTimers' = [progressTimers EXCEPT ![j] = FALSE]
    /\ progressBuffer' = [progressBuffer EXCEPT ![j] = NoMsg]
    /\ reply' = NoReply
    /\ UNCHANGED <<aux, broker, waitq, pc, run, connected, flushing, updating,
                   cancelOk>>

\* handleJobUpdate up to its await of updateJobStatus.
handleJobUpdate(j) ==
    /\ chan[j] # <<>>
    /\ Head(chan[j]).type = "job-update"
    /\ updating[j] = NoMsg
    /\ updating' = [updating EXCEPT ![j] = Head(chan[j])]
    /\ chan' = [chan EXCEPT ![j] = Tail(@)]
    /\ lastPub' = NoMsg
    /\ reply' = NoReply
    /\ UNCHANGED <<aux, rows, broker, waitq, pc, run, connected, progressBuffer,
                   progressTimers, flushing, cancelOk, termPub>>

\* The awaited updateJobStatus settles; then emitJobUpdate.
jobUpdateLand(j, ok) ==
    /\ updating[j] # NoMsg
    /\ rows' = IF ok
               THEN [rows EXCEPT ![j] =
                       updateJobStatus(@, updating[j].status, Undef, Undef)]
               ELSE rows
    /\ lastPub' = updating[j]
    /\ updating' = [updating EXCEPT ![j] = NoMsg]
    /\ reply' = NoReply
    /\ UNCHANGED <<aux, broker, waitq, pc, run, connected, chan, progressBuffer,
                   progressTimers, flushing, cancelOk, termPub>>

\* The API process is killed and started again: what the gateway held in
\* memory is gone with its sockets and pending writes; onModuleInit opens the
\* queue and reads no job row.
Restart ==
    /\ connected' = FALSE
    /\ chan' = [j \in Jobs |-> <<>>]
    /\ progressBuffer' = [i \in Ids |-> NoMsg]
    /\ progressTimers' = [i \in Ids |-> FALSE]
    /\ flushing' = [i \in Ids |-> NoMsg]
    /\ updating' = [j \in Jobs |-> NoMsg]
    /\ lastPub' = NoMsg
    /\ reply' = NoReply
    /\ UNCHANGED <<aux, rows, broker, waitq, pc, run, cancelOk, termPub>>

\* ---------------------------------------------------------- FilesService
cleanupOldFiles(j) ==
    /\ rows[j].status = "completed"
    /\ rows[j].outputPath # Null
    /\ rows' = [rows EXCEPT ![j].outputPath = Null]
    /\ lastPub' = NoMsg
    /\ reply' = NoReply
    /\ UNCHANGED <<aux, broker, waitq, pc, run, connected, chan, progressBuffer,
                   progressTimers, flushing, updating, cancelOk, termPub>>

\* ------------------------------------------------------------------ Next
\* Spec follows one submission through every operation and event.
Solo == {1}

Next ==
    \/ \E j \in Solo : createDownload(j, DefaultDto)
    \/ \E j \in Jobs : cancelDownload(j)
    \/ \E j \in Jobs : pauseDownload(j)
    \/ \E j \in Jobs : resumeDownload(j)
    \/ \E j \in Jobs : retryDownload(j)
    \/ WsConnect
    \/ WsDisconnect
    \/ \E j \in Jobs : Reserve(j, MaxRuns)
    \/ \E j \in Jobs : Promote(j)
    \/ \E j \in Jobs : processJobStart(j)
    \/ \E j \in Jobs : \E line \in Lines : processJobProgress(j, line)
    \/ \E j \in Jobs : processJobFinalize(j)
    \/ \E j \in Jobs : processJobReturn(j)
    \/ \E j \in Jobs : processJobCatch(j, "NETWORK_ERROR")
    \/ \E j \in Jobs : processJobThrow(j)
    \/ \E j \in Jobs : handleProgress(j)
    \/ \E i \in Ids : progressTimerFire(i)
    \/ \E i \in Ids : \E ok \in BOOLEAN : progressFlushLand(i, ok)
    \/ \E j \in Jobs : \E ok \in BOOLEAN : handleCompleted(j, ok)
    \/ \E j \in Jobs : \E ok \in BOOLEAN : handleFailed(j, ok)
    \/ \E j \in Jobs : handleJobUpdate(j)
    \/ \E j \in Jobs : \E ok \in BOOLEAN : jobUpdateLand(j, ok)
    \/ \E j \in Jobs : cleanupOldFiles(j)
    \/ Restart

Spec == Init /\ [][Next]_vars

\* SpecRelay is Spec without Retry: one job, whose runs are those that the
\* broker starts for its attempts, with Cancel, Pause and Resume, the worker,
\* its socket and the gateway, a restart of the API process included.
NextRelay ==
    \/ \E j \in Solo : createDownload(j, DefaultDto)
    \/ \E j \in Jobs : cancelDownload(j)
    \/ \E j \in Jobs : pauseDownload(j)
    \/ \E j \in Jobs : resumeDownload(j)
    \/ WsConnect
    \/ WsDisconnect
    \/ \E j \in Jobs : Reserve(j, MaxRuns)
    \/ \E j \in Jobs : Promote(j)
    \/ \E j \in Jobs : processJobStart(j)
    \/ \E j \in Jobs : \E line \in Lines : processJobProgress(j, line)
    \/ \E j \in Jobs : processJobFinalize(j)
    \/ \E j \in Jobs : processJobReturn(j)
    \/ \E j \in Jobs : processJobCatch(j, "NETWORK_ERROR")
    \/ \E j \in Jobs : processJobThrow(j)
    \/ \E j \in Jobs : handleProgress(j)
    \/ \E i \in Ids : progressTimerFire(i)
    \/ \E i \in Ids : \E ok \in BOOLEAN : progressFlushLand(i, ok)
    \/ \E j \in Jobs : \E ok \in BOOLEAN : handleCompleted(j, ok)
    \/ \E j \in Jobs : \E ok \in BOOLEAN : handleFailed(j, ok)
    \/ \E j \in Jobs : handleJobUpdate(j)
    \/ \E j \in Jobs : \E ok \in BOOLEAN : jobUpdateLand(j, ok)
    \/ \E j \in Jobs : cleanupOldFiles(j)
    \/ Restart

SpecRelay == Init /\ [][NextRelay]_vars

\* SpecPool runs NJobs submissions through the worker slots and the
\* gateway's event handlers, without the control operations.
NextPool ==
    \/ \E j \in Jobs : createDownload(j, DefaultDto)
    \/ WsConnect
    \/ \E j \in Jobs : Reserve(j, MaxRuns)
    \/ \E j \in Jobs : Promote(j)
    \/ \E j \in Jobs : processJobStart(j)
    \/ \E j \in Jobs : processJobFinalize(j)
    \/ \E j \in Jobs : processJobReturn(j)
    \/ \E j \in Jobs : processJobCatch(j, "NETWORK_ERROR")
    \/ \E j \in Jobs : processJobThrow(j)
    \/ \E j \in Jobs : handleProgress(j)
    \/ \E j \in Jobs : \E ok \in BOOLEAN : handleCompleted(j, ok)
    \/ \E j \in Jobs : \E ok \in BOOLEAN : handleFailed(j, ok)
    \/ \E j \in Jobs : handleJobUpdate(j)
    \/ \E j \in Jobs : \E ok \in BOOLEAN : jobUpdateLand(j, ok)

SpecPool == Init /\ [][NextPool]_vars

\* SpecControl follows one submission of a youtube job, with any headers and
\* transcode option and with no filename hint, a hint that sanitization
\* changes or one that it empties, through the API operations and their
\* rejections, the broker and the worker, a crash of the worker process
\* included, while the worker's socket stays disconnected.
ControlDtos == {dto \in Dtos : /\ dto.type = "youtube"
                              /\ dto.twitter = Undef
                              /\ dto.filenameHint # <<"a">>}

NextControl ==
    \/ \E j \in Solo : \E dto \in ControlDtos : createDownload(j, dto)
    \/ \E j \in Solo : \E dto \in ControlDtos : createDownloadRejects(j, dto)
    \/ \E j \in Solo : \E dto \in ControlDtos :
          createDownloadEnqueueFails(j, dto)
    \/ \E j \in Jobs : cancelDownload(j)
    \/ \E j \in Jobs : cancelDownloadRejects(j)
    \/ \E j \in Jobs : pauseDownload(j)
    \/ \E j \in Jobs : pauseDownloadRejects(j)
    \/ \E j \in Jobs : resumeDownload(j)
    \/ \E j \in Jobs : resumeDownloadRejects(j)
    \/ \E j \in Jobs : retryDownload(j)
    \/ \E j \in Jobs : retryDownloadRejects(j)
    \/ \E j \in Jobs : Reserve(j, MaxRunsCtl)
    \/ \E j \in Jobs : Promote(j)
    \/ \E j \in Jobs : processJobStart(j)
    \/ \E j \in Jobs : \E line \in Lines : processJobProgress(j, line)
    \/ \E j \in Jobs : processJobTranscode(j)
    \/ \E j \in Jobs : processJobFinalize(j)
    \/ \E j \in Jobs : processJobReturn(j)
    \/ \E j \in Jobs : \E code \in ErrorCodes : processJobCatch(j, code)
    \/ \E j \in Jobs : processJobThrow(j)
    \/ WorkerCrash
    \/ \E j \in Jobs : moveStalledJobsToWait(j)
    \/ \E j \in Jobs : cleanupOldFiles(j)

SpecControl == Init /\ [][NextControl]_vars

\* SpecQueue submits NJobs jobs of any of three types and lets the worker,
\* whose socket stays disconnected, take them from the queue and run them.
QueueDtos == {[DefaultDto EXCEPT !.type = t] : t \in {"auto", "youtube", "m3u8"}}

NextQueue ==
    \/ \E j \in Jobs : \E dto \in QueueDtos : createDownload(j, dto)
    \/ \E j \in Jobs : Reserve(j, MaxRuns)
    \/ \E j \in Jobs : Promote(j)
    \/ \E j \in Jobs : processJobStart(j)
    \/ \E j \in Jobs : \E line \in Lines : processJobProgress(j, line)
    \/ \E j \in Jobs : \E status \in Polls : monitorDownload(j, status)
    \/ \E j \in Jobs : Tick(j)
    \/ \E j \in Jobs : processJobFinalize(j)
    \/ \E j \in Jobs : processJobReturn(j)
    \/ \E j \in Jobs : processJobCatch(j, "NETWORK_ERROR")
    \/ \E j \in Jobs : processJobThrow(j)

SpecQueue == Init /\ [][NextQueue]_vars

\* SpecAuth follows the gateway of the worker namespace, started with or
\* without WORKER_TOKEN, while a client without the token connects to it.
NextAuth ==
    \/ \E j \in Solo : createDownload(j, DefaultDto)
    \/ \E token \in {Undef, "bad"} : handleConnection(token)
    \/ \E j \in Solo : \E msg \in Forged(j) : forgedEmit(j, msg)
    \/ \E j \in Jobs : handleProgress(j)
    \/ \E i \in Ids : progressTimerFire(i)
    \/ \E i \in Ids : \E ok \in BOOLEAN : progressFlushLand(i, ok)
    \/ \E j \in Jobs : \E ok \in BOOLEAN : handleCompleted(j, ok)
    \/ \E j \in Jobs : \E ok \in BOOLEAN : handleFailed(j, ok)
    \/ \E j \in Jobs : handleJobUpdate(j)
    \/ \E j \in Jobs : \E ok \in BOOLEAN : jobUpdateLand(j, ok)

SpecAuth == InitAuth /\ [][NextAuth]_vars

\* SpecFile follows one job of type auto, which aria2 downloads, through the
\* worker and the gateway.
FileDto == [DefaultDto EXCEPT !.type = "auto"]

NextFile ==
    \/ \E j \in Solo : createDownload(j, FileDto)
    \/ WsConnect
    \/ WsDisconnect
    \/ \E j \in Jobs : Reserve(j, MaxRuns)
    \/ \E j \in Jobs : Promote(j)
    \/ \E j \in Jobs : processJobStart(j)
    \/ \E j \in Jobs : \E status \in Polls : monitorDownload(j, status)
    \/ \E j \in Jobs : processJobFinalize(j)
    \/ \E j \in Jobs : processJobReturn(j)
    \/ \E j \in Jobs : processJobCatch(j, "NETWORK_ERROR")
    \/ \E j \in Jobs : processJobThrow(j)
    \/ \E j \in Jobs : handleProgress(j)
    \/ \E i \in Ids : progressTimerFire(i)
    \/ \E i \in Ids : \E ok \in BOOLEAN : progressFlushLand(i, ok)
    \/ \E j \in Jobs : \E ok \in BOOLEAN : handleCompleted(j, ok)
    \/ \E j \in Jobs : \E ok \in BOOLEAN : handleFailed(j, ok)
    \/ \E j \in Jobs : handleJobUpdate(j)
    \/ \E j \in Jobs : \E ok \in BOOLEAN : jobUpdateLand(j, ok)

SpecFile == Init /\ [][NextFile]_vars

\* SpecTime follows the runs of one job, downloaded by yt-dlp or by aria2,
\* with or without a transcode stage, while time passes; the worker's
\* socket stays disconnected.
TimeDtos == {[DefaultDto EXCEPT !.type = t, !.transcode = tr] :
               t \in {"auto", "youtube"}, tr \in {Undef, "t"}}

NextTime ==
    \/ \E j \in Solo : \E dto \in TimeDtos : createDownload(j, dto)
    \/ \E j \in Jobs : Reserve(j, MaxRuns)
    \/ \E j \in Jobs : Promote(j)
    \/ \E j \in Jobs : processJobStart(j)
    \/ \E j \in Jobs : \E line \in LinesOver : processJobProgress(j, line)
    \/ \E j \in Jobs : \E status \in Polls : monitorDownload(j, status)
    \/ \E j \in Jobs : processJobTranscode(j)
    \/ \E j \in Jobs : \E outTime \in OutTimes :
          \E totalDuration \in Durations :
             transcodeProgress(j, outTime, totalDuration)
    \/ \E j \in Jobs : Tick(j)
    \/ \E j \in Jobs : processJobFinalize(j)
    \/ \E j \in Jobs : processJobReturn(j)
    \/ \E j \in Jobs : processJobCatch(j, "NETWORK_ERROR")
    \/ \E j \in Jobs : processJobThrow(j)

SpecTime == Init /\ [][NextTime]_vars

\* SpecOptions follows one submission with any type and options through its
\* runs, Cancel and Retry, while the worker's socket stays disconnected.
NextOptions ==
    \/ \E j \in Solo : \E dto \in Dtos : createDownload(j, dto)
    \/ \E j \in Jobs : cancelDownload(j)
    \/ \E j \in Jobs : retryDownload(j)
    \/ \E j \in Jobs : Reserve(j, MaxRuns)
    \/ \E j \in Jobs : Promote(j)
    \/ \E j \in Jobs : processJobStart(j)
    \/ \E j \in Jobs : processJobTranscode(j)
    \/ \E j \in Jobs : processJobFinalize(j)
    \/ \E j \in Jobs : processJobReturn(j)
    \/ \E j \in Jobs : processJobCatch(j, "NETWORK_ERROR")
    \/ \E j \in Jobs : processJobThrow(j)

SpecOptions == Init /\ [][NextOptions]_vars

\* SpecStages follows one job that yt-dlp downloads, with or without a
\* transcode stage, through the stages of the worker up to the room of the
\* gateway.
StageDtos == {[DefaultDto EXCEPT !.transcode = tr] : tr \in {Undef, "t"}}

NextStages ==
    \/ \E j \in Solo : \E dto \in StageDtos : createDownload(j, dto)
    \/ WsConnect
    \/ \E j \in Jobs : Reserve(j, MaxRuns)
    \/ \E j \in Jobs : Promote(j)
    \/ \E j \in Jobs : processJobStart(j)
    \/ \E j \in Jobs : \E line \in LinesDone : processJobProgress(j, line)
    \/ \E j \in Jobs : processJobTranscode(j)
    \/ \E j \in Jobs : \E outTime \in OutTimes :
          \E totalDuration \in Durations :
             transcodeProgress(j, outTime, totalDuration)
    \/ \E j \in Jobs : processJobFinalize(j)
    \/ \E j \in Jobs : processJobReturn(j)
    \/ \E j \in Jobs : processJobCatch(j, "NETWORK_ERROR")
    \/ \E j \in Jobs : processJobThrow(j)
    \/ \E j \in Jobs : handleProgress(j)
    \/ \E i \in Ids : progressTimerFire(i)
    \/ \E i \in Ids : \E ok \in BOOLEAN : progressFlushLand(i, ok)
    \/ \E j \in Jobs : \E ok \in BOOLEAN : handleCompleted(j, ok)
    \/ \E j \in Jobs : \E ok \in BOOLEAN : handleFailed(j, ok)
    \/ \E j \in Jobs : handleJobUpdate(j)
    \/ \E j \in Jobs : \E ok \in BOOLEAN : jobUpdateLand(j, ok)

SpecStages == Init /\ [][NextStages]_vars

\* SpecPoll follows one job of type auto whose aria2 download is polled,
\* with every status of Statuses, while the worker's socket stays
\* disconnected.
NextPoll ==
    \/ \E j \in Solo : createDownload(j, FileDto)
    \/ \E j \in Jobs : Reserve(j, MaxRuns)
    \/ \E j \in Jobs : Promote(j)
    \/ \E j \in Jobs : processJobStart(j)
    \/ \E j \in Jobs : \E status \in Statuses : monitorDownload(j, status)
    \/ \E j \in Jobs : processJobFinalize(j)
    \/ \E j \in Jobs : processJobReturn(j)
    \/ \E j \in Jobs : processJobCatch(j, "NETWORK_ERROR")
    \/ \E j \in Jobs : processJobThrow(j)

SpecPoll == Init /\ [][NextPoll]_vars

\* SpecSettle follows one job through its download stage, with no terminal
\* event, while job-store writes succeed.  The worker may stop printing at
\* any time; the API process goes on: a received message is handled, an
\* armed timer expires and an awaited write settles.
NextSettle ==
    \/ \E j \in Solo : createDownload(j, DefaultDto)
    \/ WsConnect
    \/ \E j \in Jobs : Reserve(j, MaxRuns)
    \/ \E j \in Jobs : processJobStart(j)
    \/ \E j \in Jobs : \E line \in Lines : processJobProgress(j, line)
    \/ \E j \in Jobs : handleProgress(j)
    \/ \E i \in Ids : progressTimerFire(i)
    \/ \E i \in Ids : progressFlushLand(i, TRUE)
    \/ \E j \in Jobs : handleJobUpdate(j)
    \/ \E j \in Jobs : jobUpdateLand(j, TRUE)

SpecSettle ==
    /\ Init
    /\ [][NextSettle]_vars
    /\ WF_vars(\E j \in Jobs : handleProgress(j))
    /\ WF_vars(\E i \in Ids : progressTimerFire(i))
    /\ WF_vars(\E i \in Ids : progressFlushLand(i, TRUE))
    /\ WF_vars(\E j \in Jobs : handleJobUpdate(j))
    /\ WF_vars(\E j \in Jobs : jobUpdateLand(j, TRUE))

\* SpecOutcome follows the attempts of one job that yt-dlp downloads, with
\* or without a transcode stage, up to what each attempt reports to BullMQ;
\* the removal of the temporary directory may fail.  The worker's socket
\* stays disconnected, so the worker is the only writer of the row.
NextOutcome ==
    \/ \E j \in Solo : \E dto \in StageDtos : createDownload(j, dto)
    \/ \E j \in Jobs : Reserve(j, MaxRuns)
    \/ \E j \in Jobs : Promote(j)
    \/ \E j \in Jobs : processJobStart(j)
    \/ \E j \in Jobs : \E line \in Lines : processJobProgress(j, line)
    \/ \E j \in Jobs : processJobTranscode(j)
    \/ \E j \in Jobs : \E outTime \in OutTimes :
          \E totalDuration \in Durations :
             transcodeProgress(j, outTime, totalDuration)
    \/ \E j \in Jobs : processJobFinalize(j)
    \/ \E j \in Jobs : processJobReturn(j)
    \/ \E j \in Jobs : processJobRmThrows(j, "EACCES")
    \/ \E j \in Jobs : \E code \in ErrorCodes : processJobCatch(j, code)
    \/ \E j \in Jobs : processJobThrow(j)

SpecOutcome == Init /\ [][NextOutcome]_vars

\* ================================================================ claims
Edges == {<<"queued", "running">>, <<"queued", "cancelled">>,
          <<"running", "paused">>, <<"running", "cancelled">>,
          <<"running", "completed">>, <<"running", "failed">>,
          <<"paused", "queued">>, <<"paused", "cancelled">>,
          <<"failed", "queued">>, <<"cancelled", "queued">>}

\* C1: every change of a job's persisted status is an edge of the state
\* machine.
C1_StatusFollowsStateMachine ==
    [][\A j \in Jobs :
         (rows[j].status # "absent" /\ rows'[j].status # rows[j].status)
           => <<rows[j].status, rows'[j].status>> \in Edges]_vars

\* C2: at no instant do more than MaxConcurrent jobs have status running.
C2_RunningWithinCap ==
    Cardinality({j \in Jobs : rows[j].status = "running"}) <= MaxConcurrent

\* C3: a completed job has an output path, progress 100, stage completed and
\* no error code or message.
C3_CompletedRowShape ==
    \A j \in Jobs :
      rows[j].status = "completed" =>
        /\ rows[j].outputPath # Null
        /\ rows[j].progress = 100
        /\ rows[j].stage = "completed"
        /\ rows[j].errorCode = Null
        /\ rows[j].errorMessage = Null

\* C4: after Cancel succeeded on a queued or running job, and until Retry,
\* the job does no work, its status stays cancelled and no completed event
\* is published for it.
C4_CancelledStaysCancelled ==
    \A j \in Jobs :
      cancelOk[j] =>
        /\ rows[j].status = "cancelled"
        /\ pc[j] = "idle"
        /\ ~(lastPub.type = "completed" /\ lastPub.job = j)

\* Latest run of the job whose terminal row write has been applied: the
\* worker writes the terminal status itself when its run ends.
TermRun(j) ==
    IF pc[j] \in {"start", "download", "transcode"} THEN run[j] - 1 ELSE run[j]

\* C5: once the terminal write of a run has been applied to the row, no
\* progress write of that run is applied.
C5_NoProgressWriteAfterTerminal ==
    [][\A j \in Jobs :
         progressFlushLand(j, TRUE) => flushing[j].run > TermRun(j)]_vars

\* C6: after the completed or failed event of a run has been published, no
\* progress or job-update event of that run is published.
C6_TerminalEventIsLast ==
    [][\A j \in Jobs :
         (lastPub'.job = j /\ lastPub'.type \in {"progress", "job-update"})
           => lastPub'.run \notin termPub[j]]_vars

\* C7: every run that ended has its completed or failed event published once
\* nothing of the job is in flight any more.
C7_TerminalEventPublished ==
    \A j \in Jobs :
      (pc[j] = "idle" /\ run[j] >= 1 /\ chan[j] = <<>>)
        => run[j] \in termPub[j]

\* The gateway takes the next message of the job's channel in this step.
Receives(j) ==
    /\ connected' = connected
    /\ chan[j] # <<>>
    /\ chan'[j] = Tail(chan[j])

\* C8: every progress event the gateway receives is published in the step
\* that receives it, hence once and in the order received, and no progress
\* event is published otherwise.
C8_ProgressPublishedOnReceipt ==
    [][/\ \A j \in Jobs :
            (Receives(j) /\ Head(chan[j]).type = "progress")
              => lastPub' = Head(chan[j])
       /\ lastPub'.type = "progress"
            => \E j \in Jobs : Receives(j) /\ Head(chan[j]) = lastPub']_vars

\* A progress event is published while the throttle timer was already armed
\* and an earlier timer write is still awaited.
C8_Witness ==
    /\ lastPub.type = "progress"
    /\ lastPub.progress = 50
    /\ flushing[lastPub.job] # NoMsg
    /\ progressBuffer[lastPub.job] = lastPub

WorkerStep(j) ==
    \/ processJobStart(j)
    \/ \E line \in Lines : processJobProgress(j, line)
    \/ \E status \in Polls : monitorDownload(j, status)
    \/ processJobTranscode(j)
    \/ \E outTime \in OutTimes : \E totalDuration \in Durations :
          transcodeProgress(j, outTime, totalDuration)
    \/ processJobFinalize(j)
    \/ \E code \in ErrorCodes : processJobCatch(j, code)

\* C9: no step of the worker changes a job row.
C9_OnlyOrchestratorWritesRows ==
    [][\A j \in Jobs : WorkerStep(j) => rows'[j] = rows[j]]_vars

\* C10: the persisted progress of a job decreases only where a new run
\* begins (the worker's start of an attempt, or the reset made by Retry).
C10_ProgressMonotoneWithinRun ==
    [][\A j \in Jobs :
         rows'[j].progress < rows[j].progress
           => (processJobStart(j) \/ retryDownload(j))]_vars

\* The broker holds the job for a run: waiting, delayed for a re-attempt, or
\* being processed.
Pending(b, j) == b[j].state \in {"wait", "delayed", "active"}

\* C11: a Retry that succeeds leaves the row queued with progress 0, stage
\* null and no error, and the job pending in the broker, whatever entry the
\* broker retained for the job id.
C11_RetryEnqueues ==
    [][\A j \in Jobs :
         retryDownload(j) =>
           /\ rows'[j].status = "queued"
           /\ rows'[j].progress = 0
           /\ rows'[j].stage = Null
           /\ rows'[j].errorCode = Null
           /\ rows'[j].errorMessage = Null
           /\ Pending(broker', j)]_vars

\* C12: when an attempt fails with NETWORK_ERROR and the broker will make
\* another attempt, the status that follows running is queued: the sequence
\* is queued, running, queued, running, completed.
C12_FailedAttemptGoesBackToQueued ==
    [][\A j \in Jobs :
         (processJobCatch(j, "NETWORK_ERROR")
            /\ broker[j].attemptsMade + 1 < attempts)
           => rows'[j].status = "queued"]_vars

\* C13: the broker starts at most attempts runs for one enqueue of a job,
\* re-deliveries of stalled jobs included.
C13_AttemptsWithinMax ==
    \A j \in Jobs : broker[j].attemptsStarted <= attempts

\* Error codes after which the broker may re-attempt the job.
RetryEligible == {"NETWORK_ERROR"}

\* C14: when a run has failed with an error code that is not retry-eligible,
\* the broker schedules no further attempt: the job is permanently failed.
C14_NoReattemptAfterTerminalError ==
    [][\A j \in Jobs :
         (processJobThrow(j) /\ rows[j].errorCode \in ErrorCodes \ RetryEligible)
           => broker'[j].state = "failed"]_vars

\* C15: a Pause that succeeds leaves no run of the job in progress, and
\* while the job is paused, Resume and Cancel apart, its status and progress
\* are not written and no completed or failed event of it is published.
C15_PausedJobIsInert ==
    [][\A j \in Jobs :
         /\ pauseDownload(j) => pc'[j] = "idle"
         /\ (rows[j].status = "paused"
               /\ ~resumeDownload(j) /\ ~cancelDownload(j))
              => /\ rows'[j].status = "paused"
                 /\ rows'[j].progress = rows[j].progress
                 /\ ~(lastPub'.job = j
                        /\ lastPub'.type \in {"completed", "failed"})]_vars

\* C16: a Resume that succeeds leaves the row queued and the job waiting in
\* the broker, with the priority of its type, for a fresh attempt.
C16_ResumeEnqueues ==
    [][\A j \in Jobs :
         resumeDownload(j) =>
           /\ rows'[j].status = "queued"
           /\ broker'[j].state \in {"wait", "delayed"}
           /\ broker'[j].priority = IF rows[j].type = "youtube" THEN 5 ELSE 3
      ]_vars

\* C17: when the API process starts again, every job whose row is running
\* and that no worker holds is moved to queued and enqueued.
C17_RestartReconcilesRunning ==
    [][Restart =>
         \A j \in Jobs :
           (rows[j].status = "running" /\ broker[j].state # "active")
             => (rows'[j].status = "queued" /\ Pending(broker', j))]_vars

C19_RetryRejectedUnlessFailedOrCancelled ==
    [][\A j \in Jobs :
         (reply'.op = "retry" /\ reply'.job = j
            /\ rows[j].status \notin {"failed", "cancelled"})
           => /\ reply'.result = IF rows[j].status = "absent"
                                 THEN "NotFoundException"
                                 ELSE "BadRequestException"
              /\ rows' = rows
              /\ broker' = broker
              /\ waitq' = waitq]_vars

\* A Retry was rejected for a completed job.
C19_Witness ==
    /\ reply = Reply("retry", 1, "completed", "BadRequestException")
    /\ rows[1].status = "completed"
    /\ broker[1].state = "completed"

\* The value of a field of what Get returns, undefined when Get returns no
\* such field.
Field(rec, f) == IF f \in DOMAIN rec THEN rec[f] ELSE Undef

\* C20: after a Submit that succeeded, Get returns the job with status
\* queued (or running), and with the URL, type, headers, transcode options
\* and filename hint that were submitted.
C20_GetReturnsSubmitted ==
    [][\A j \in Jobs : \A dto \in Dtos :
         createDownload(j, dto) =>
           LET got == getDownload(rows'[j]) IN
             /\ got.status \in {"queued", "running"}
             /\ got.url = dto.url
             /\ got.type = dto.type
             /\ got.filename = dto.filenameHint
             /\ Field(got, "headers") = dto.headers
             /\ Field(got, "transcode") = dto.transcode]_vars

\* C21: whenever a run of a job is in progress, the job data it was given
\* carries the URL, the Kind and the Options (headers, transcode parameters,
\* per-kind options) of the submission, and the row still has the submitted
\* URL and Kind.
C21_RunGivenSubmittedOptions ==
    \A j \in Jobs :
        broker[j].state = "active" =>
            /\ rows[j].status # "absent" =>
                  rows[j].url = submitted[j].url /\ rows[j].type = submitted[j].type
            /\ broker[j].data.url = submitted[j].url
            /\ broker[j].data.type = submitted[j].type
            /\ broker[j].data.headers = submitted[j].headers
            /\ broker[j].data.transcode = submitted[j].transcode
            /\ broker[j].data.twitter = submitted[j].twitter

\* C22: a job of type youtube or m3u8 (hls) is enqueued with priority 5 and
\* a job of any other type with 3, and the job that the worker reserves has
\* the highest priority value among the waiting jobs and was enqueued before
\* every other waiting job of that value.
C22_PriorityOrder ==
    [][\A j \in Jobs :
         /\ (broker[j].state = "none" /\ broker'[j].state = "wait") =>
               broker'[j].priority =
                  IF broker'[j].data.type \in {"youtube", "m3u8"} THEN 5 ELSE 3
         /\ (broker[j].state = "wait" /\ broker'[j].state = "active") =>
               \A k \in 1..Len(waitq) :
                  \/ broker[waitq[k]].priority < broker[j].priority
                  \/ /\ broker[waitq[k]].priority = broker[j].priority
                     /\ \A i \in 1..Len(waitq) : waitq[i] = j => i <= k]_vars

\* C23: after every step no connection of a client without the valid token
\* is open, whether WORKER_TOKEN is set or not, and a step in which the
\* gateway handles a message of such a client changes no job row and
\* publishes nothing.
C23_NoEffectWithoutToken ==
    [][/\ ~rogue'
       /\ \A j \in Jobs :
            (chan[j] # <<>> /\ Head(chan[j]).run = 0
               /\ chan'[j] = Tail(chan[j])) =>
                  rows' = rows /\ lastPub' = NoMsg /\ updating' = updating]_vars

\* The columns of a row that are not progress-class fields.
NonProgressFields(row) ==
    [url |-> row.url, type |-> row.type, status |-> row.status,
     meta |-> row.meta, headers |-> row.headers,
     errorCode |-> row.errorCode, errorMessage |-> row.errorMessage,
     filename |-> row.filename, outputPath |-> row.outputPath]

\* C24: when the gateway receives a progress event that the run of job J
\* emitted, the event is published to room job:J, only the buffer and the
\* timer of J change and no row changes; when the throttled write of J's
\* buffer lands, only the progress-class fields of J's row change.
C24_ProgressEventStaysWithItsJob ==
    [][\A j \in Jobs :
         /\ (Receives(j) /\ Head(chan[j]).type = "progress") =>
               /\ lastPub'.job = j
               /\ rows' = rows
               /\ \A i \in Ids \ {j} :
                     /\ progressBuffer'[i] = progressBuffer[i]
                     /\ progressTimers'[i] = progressTimers[i]
         /\ (flushing[j] # NoMsg /\ flushing'[j] = NoMsg /\ connected' = connected) =>
               /\ \A k \in Jobs \ {j} : rows'[k] = rows[k]
               /\ NonProgressFields(rows'[j]) = NonProgressFields(rows[j])]_vars

\* C25: a job whose status is failed has an error code.
C25_FailedHasErrorCode ==
    \A j \in Jobs : rows[j].status = "failed" => rows[j].errorCode # Null

\* C26: a Submit that is rejected or that fails leaves no row and no queue
\* entry for the job, and a Submit that returns a jobId leaves the row in
\* queued and one waiting queue entry for it.
C26_SubmitAllOrNothing ==
    [][\A j \in Jobs :
         (reply'.op = "create" /\ reply'.job = j) =>
            IF reply'.result = "ok"
            THEN /\ rows'[j].status = "queued"
                 /\ broker'[j].state = "wait"
                 /\ Len(SelectSeq(waitq', LAMBDA k : k = j)) = 1
            ELSE /\ rows'[j].status = "absent"
                 /\ broker'[j].state = "none"
                 /\ Len(SelectSeq(waitq', LAMBDA k : k = j)) = 0]_vars

\* C27: a run in stage download or transcode never stays without a changed
\* progress value for longer than watchdogTimeout: by then its child has
\* been terminated and the run has failed.
C27_WatchdogEndsSilentRun ==
    \A j \in Jobs :
        pc[j] \in {"download", "transcode"} => clock[j].quiet <= watchdogTimeout

\* C28: no run lasts longer than JOB_TIMEOUT, whichever adapter downloads
\* and whether or not a transcode follows.
C28_RunEndsWithinDeadline ==
    \A j \in Jobs :
        pc[j] \in {"download", "transcode"} => clock[j].total <= JOB_TIMEOUT

\* C29: the progress stored in a job row is within 0..100.
C29_ProgressWithinRange ==
    \A j \in Jobs : rows[j].progress >= 0 /\ rows[j].progress <= 100

\* C30: a progress event that the gateway receives while no write of its
\* job is awaited is published in that step, becomes the buffered event and
\* leaves the timer armed, and the step issues no write; the buffer only
\* ever takes an event in the step that receives it; a write is issued only
\* by the step in which the timer fires, and a timer that fires with a
\* buffered event issues one write, which carries that event.
C30_ThrottledWriteCarriesLatest ==
    [][/\ \A j \in Jobs :
            (Receives(j) /\ Head(chan[j]).type = "progress"
               /\ flushing[Head(chan[j]).job] = NoMsg) =>
                  /\ lastPub' = Head(chan[j])
                  /\ progressBuffer'[Head(chan[j]).job] = Head(chan[j])
                  /\ progressTimers'[Head(chan[j]).job]
                  /\ flushing' = flushing
                  /\ rows' = rows
       /\ \A i \in Ids :
            /\ (progressBuffer'[i] # progressBuffer[i]
                  /\ progressBuffer'[i] # NoMsg) =>
                  \E j \in Jobs : Receives(j) /\ Head(chan[j]) = progressBuffer'[i]
            /\ (flushing'[i] # flushing[i] /\ flushing'[i] # NoMsg) =>
                  /\ progressTimers[i] /\ ~progressTimers'[i]
                  /\ flushing[i] = NoMsg
                  /\ flushing'[i] = progressBuffer[i]
            /\ (progressTimers[i] /\ ~progressTimers'[i]
                  /\ progressBuffer[i] # NoMsg
                  /\ progressBuffer'[i] = progressBuffer[i]
                  /\ flushing[i] = NoMsg) =>
                  flushing'[i] = progressBuffer[i]]_vars

\* The timer has fired after a 50% event of a run was received and
\* published, and the write that is awaited carries that event.
C30_Witness ==
    /\ ~progressTimers[1]
    /\ flushing[1].type = "progress"
    /\ flushing[1].stage = "download"
    /\ flushing[1].progress = 50
    /\ progressBuffer[1] = flushing[1]
    /\ lastPub = NoMsg

C32_OneProgressWritePerInterval ==
    [][\A j \in Jobs :
          (/\ pc[j] = "download"
           /\ pc'[j] = "download"
           /\ rows[j].status = "running"
           /\ rows[j].progress # 0
           /\ clock[j].total = 0
           /\ clock'[j].total = 0) =>
             /\ rows'[j].progress = rows[j].progress
             /\ rows'[j].stage = rows[j].stage]_vars


\* C33: the broker's reservation of a run is released before the persisted
\* status becomes completed, failed or cancelled: no row holds a terminal
\* status while the broker still holds its job as active.
C33_ReservationReleasedBeforeTerminal ==
    \A j \in Jobs :
       rows[j].status \in {"completed", "failed", "cancelled"} =>
          broker[j].state # "active"


\* C34: a failure of the job store during the write of a terminal event is
\* retried once, so a single failed write does not leave the row
\* non-terminal: whenever a completed or failed event has just been
\* published, the row of its job holds a terminal status.
C34_TerminalPublishedImpliesTerminalRow ==
    lastPub.type \in {"completed", "failed"} =>
       rows[lastPub.job].status \in {"completed", "failed", "cancelled"}


\* C35: every progress event published before the completed event carries a
\* progress between 0 and 95; only the completed event stands for 100.
C35_ProgressEventsBelowCompletion ==
    lastPub.type = "progress" => lastPub.progress \in 0..95


\* A string that is a length: decimal digits and nothing else (a missing
\* field counts as 0).
IsLength(str) == \A i \in 1..Len(str) : IsDigit(str[i])

\* C36: a poll of the file adapter produces a progress delta only when the
\* total is greater than 0 and completed is a valid non-negative length;
\* then progress = 100 * completed / total, totalBytes = total, and eta =
\* (total - completed) / speed is set only when speed > 0; otherwise no delta
\* is produced.
C36_PollDelta ==
    poll # NoPoll =>
      LET status == poll.status
          delta == poll.delta
          total == digitsValue(status.totalLength, 0)
          completed == digitsValue(status.completedLength, 0)
          speed == digitsValue(status.downloadSpeed, 0)
      IN IF /\ IsLength(status.totalLength)
            /\ total > 0
            /\ IsLength(status.completedLength)
         THEN /\ delta.produced
              /\ delta.progress = Num((100 * completed) \div total)
              /\ delta.totalBytes = total
              /\ delta.hasEta = (IsLength(status.downloadSpeed) /\ speed > 0)
              /\ delta.hasEta => delta.eta = Num((total - completed) \div speed)
         ELSE ~delta.produced


C38_LatestProgressPersisted ==
    (/\ lastPub.type = "progress"
     /\ lastPub.job = 1
     /\ lastPub.progress = 50
     /\ chan[1] = <<>>)
      ~> (\/ chan[1] # <<>>
          \/ /\ rows[1].progress = 50
             /\ flushing[1] = NoMsg
             /\ ~progressTimers[1])


\* C39: an attempt has exactly one terminal outcome: the status that an
\* attempt has persisted as completed is not made failed within the same
\* attempt.
C39_OneTerminalOutcome ==
    [][\A j \in Jobs :
          (rows[j].status = "completed" /\ run'[j] = run[j]) =>
             rows'[j].status # "failed"]_vars


\* C40: at the start of every attempt the temporary directory of the job
\* holds no file that an earlier attempt of the job left there.
C40_TempDirCleanAtStart ==
    \A j \in Jobs : pc[j] = "start" => ~tempJobDir[j]

====
